---- MODULE Spec2Model ----
(***************************************************************************)
(* Route synthesis of tornado_json/routes.py.                              *)
(*                                                                         *)
(* Strings are sequences of one-character strings, so that lower(),        *)
(* endswith(), replace(), rstrip(), split() and join() are computed the    *)
(* way Python computes them.                                               *)
(***************************************************************************)
EXTENDS Integers, Sequences, FiniteSets, TLC

VARIABLES
    PY3,        \* the interpreter is Python 3 (map() returns a one-shot iterator)
    hashseed,   \* selects the iteration order of set() and of a Python 2 dict
    package,    \* the package tree handed to get_routes
    handlers,   \* class -> the _tj_* metadata attributes of the handler class
    call,       \* the last call of get_module_routes / get_routes, with its arguments
    routes,     \* what that call returned (<<>> when it raised)
    prev,       \* what the call before returned, when it was the same call
    err,        \* the exception the last operation raised, or "none"
    gr_in,      \* arguments of a stand-alone generate_route call
    gen         \* the values its inner functions and the call itself returned

vars == <<PY3, hashseed, package, handlers, call, routes, prev, err, gr_in, gen>>

(***************************************************************************)
(* Bounds of the model.                                                    *)
(***************************************************************************)
MaxTokens == 3      \* a class name is built of at most this many words
MaxArgs == 2        \* a handler method has at most this many extra parameters

(***************************************************************************)
(* Python's str and list primitives.                                       *)
(***************************************************************************)
UpperChars == <<"A","B","C","D","E","F","G","H","I","J","K","L","M",
                "N","O","P","Q","R","S","T","U","V","W","X","Y","Z">>
LowerChars == <<"a","b","c","d","e","f","g","h","i","j","k","l","m",
                "n","o","p","q","r","s","t","u","v","w","x","y","z">>

lower_char(c) ==
    IF \E i \in 1..26 : UpperChars[i] = c
    THEN LowerChars[CHOOSE i \in 1..26 : UpperChars[i] = c]
    ELSE c

lower(s) == [i \in 1..Len(s) |-> lower_char(s[i])]

endswith(s, suffix) ==
    /\ Len(s) >= Len(suffix)
    /\ SubSeq(s, Len(s) - Len(suffix) + 1, Len(s)) = suffix

\* str.find: the 1-based index of the first occurrence of sub in s, 0 if none
find(s, sub) ==
    LET hits == {i \in 1..(Len(s) - Len(sub) + 1) : SubSeq(s, i, i + Len(sub) - 1) = sub}
    IN  IF hits = {} THEN 0 ELSE CHOOSE i \in hits : \A j \in hits : i <= j

\* s.replace(old, new, 1)
replace_once(s, old, new) ==
    LET i == find(s, old)
    IN  IF i = 0 THEN s
        ELSE SubSeq(s, 1, i - 1) \o new \o SubSeq(s, i + Len(old), Len(s))

RECURSIVE rstrip(_, _)
rstrip(s, ch) ==
    IF s # <<>> /\ s[Len(s)] = ch THEN rstrip(SubSeq(s, 1, Len(s) - 1), ch) ELSE s

RECURSIVE split(_, _)
split(s, sep) ==
    LET i == find(s, <<sep>>)
    IN  IF i = 0 THEN <<s>>
        ELSE <<SubSeq(s, 1, i - 1)>> \o split(SubSeq(s, i + 1, Len(s)), sep)

RECURSIVE join(_, _)
join(sep, parts) ==
    IF parts = <<>> THEN <<>>
    ELSE IF Len(parts) = 1 THEN parts[1]
    ELSE parts[1] \o sep \o join(sep, Tail(parts))

RECURSIVE chain(_)
chain(lists) == IF lists = <<>> THEN <<>> ELSE Head(lists) \o chain(Tail(lists))

Reverse(s) == [i \in 1..Len(s) |-> s[Len(s) + 1 - i]]

SeqToSet(s) == {s[i] : i \in 1..Len(s)}

\* the elements of s, each once, in the order of their first occurrence
RECURSIVE Dedup(_)
Dedup(s) ==
    IF s = <<>> THEN <<>>
    ELSE LET d == Dedup(SubSeq(s, 1, Len(s) - 1))
         IN  IF s[Len(s)] \in SeqToSet(d) THEN d ELSE Append(d, s[Len(s)])

\* The order in which a hash container hands out its elements: fixed for the
\* process, unspecified by the language.
HashOrder(s) == IF hashseed = 0 THEN s ELSE Reverse(s)

\* list(set(xs))
list_set(xs) == HashOrder(Dedup(xs))

(***************************************************************************)
(* String literals of routes.py.                                           *)
(***************************************************************************)
Slash == <<"/">>
OptSlash == <<"/", "?">>                      \* r"/?"
OptSlashEnd == <<"/", "?", "$">>              \* "/?$"
HandlerLit == <<"h","a","n","d","l","e","r">> \* 'handler'
SelfLit == <<"s","e","l","f">>                \* "self"
GroupOpen == <<"(","?","P","<">>
GroupClose == <<">","[","a","-","z","A","-","Z","0","-","9","_","]","+",")">>

\* AutoURL = namedtuple('AutoURL', ['type']); a plain str url_name has auto = ""
AutoURL(type) == [auto |-> type, str |-> <<>>]
StrURL(s) == [auto |-> "", str |-> s]

(***************************************************************************)
(* generate_route and its inner functions.                                 *)
(***************************************************************************)
\* inspect.getargspec(method).args without "self"
yield_args(argspec) == SelectSeq(argspec, LAMBDA a : a # SelfLit)

get_handler_name(cls_name, url_name) ==
    IF url_name = AutoURL("self")
    THEN Slash \o (IF endswith(lower(cls_name), HandlerLit)
                   THEN replace_once(lower(cls_name), HandlerLit, <<>>)
                   ELSE lower(cls_name))
    ELSE IF url_name = AutoURL("module")
    THEN <<>>
    ELSE Slash \o url_name.str


\* get_arg_route without the end anchor after the capture groups
get_arg_route_unanchored(argspec) ==
    IF yield_args(argspec) # <<>>
    THEN Slash
         \o join(Slash, [i \in 1..Len(yield_args(argspec)) |->
                            GroupOpen \o yield_args(argspec)[i] \o GroupClose])
         \o OptSlash
    ELSE OptSlash

get_arg_route(argspec) ==
    IF yield_args(argspec) # <<>>
    THEN Slash
         \o join(Slash, [i \in 1..Len(yield_args(argspec)) |->
                            GroupOpen \o yield_args(argspec)[i] \o GroupClose])
         \o OptSlashEnd
    ELSE OptSlash


\* get_module_path that keeps the root package component
get_module_path_keeps_root(module_name) ==
    Slash \o join(Slash, split(module_name, "."))

get_module_path(module_name) ==
    Slash \o join(Slash, Tail(split(module_name, ".")))

generate_route(module_name, cls_name, argspec, url_name) ==
    get_module_path(module_name)
    \o get_handler_name(cls_name, url_name)
    \o get_arg_route(argspec)


(***************************************************************************)
(* The handler classes and packages the model runs on.                     *)
(***************************************************************************)
\* tornado_json.constants.HTTP_METHODS, lower-cased as the method attributes are
HTTP_METHODS == <<"get", "post", "put", "delete", "patch", "head", "options">>

HelloWorldHandlerName == <<"H","e","l","l","o","W","o","r","l","d","H","a","n","d","l","e","r">>
FooBarName == <<"F","o","o","B","a","r">>
HandlerFooHandlerName == <<"H","a","n","d","l","e","r","F","o","o","H","a","n","d","l","e","r">>
HelperName == <<"H","e","l","p","e","r">>

ApiFoo == <<"a","p","i",".","f","o","o">>
ApiHelloworld == <<"a","p","i",".","h","e","l","l","o","w","o","r","l","d">>
ApiUtil == <<"a","p","i",".","u","t","i","l">>
ApiBroken == <<"a","p","i",".","b","r","o","k","e","n">>
ApiPeople == <<"a","p","i",".","p","e","o","p","l","e">>
ApiPeopleViews == <<"a","p","i",".","p","e","o","p","l","e",".","v","i","e","w","s">>
WebViews == <<"w","e","b",".","v","i","e","w","s">>

ArgId == <<"i","d">>
ArgName == <<"n","a","m","e">>
ArgKey == <<"k","e","y">>

\* an own attribute of a class: its name, whether is_method accepts it, its argspec
Method(attr, args) == [attr |-> attr, is_method |-> TRUE, argspec |-> <<SelfLit>> \o args]
PlainAttr(attr) == [attr |-> attr, is_method |-> FALSE, argspec |-> <<>>]

\* HW  api.helloworld.HelloWorldHandler: get(self)
\* FB  api.foo.FooBar: get(self), post(self), and a class attribute put = None
\* UT  api.foo.Helper: not a request handler
\* HFH api.people.views.HandlerFooHandler: get(self, name), put(self, name, id),
\*     delete(self, name)
\* XFB web.views.FooBar: a handler outside the package, paired in custom routes
ClassIds == {"HW", "FB", "UT", "HFH", "XFB"}

cls_name(c) ==
    CASE c = "HW" -> HelloWorldHandlerName
      [] c = "FB" -> FooBarName
      [] c = "UT" -> HelperName
      [] c = "HFH" -> HandlerFooHandlerName
      [] c = "XFB" -> FooBarName

cls_vars(c) ==
    CASE c = "HW" -> <<Method("get", <<>>)>>
      [] c = "FB" -> <<Method("get", <<>>), Method("post", <<>>), PlainAttr("put")>>
      [] c = "UT" -> <<Method("get", <<>>)>>
      [] c = "HFH" -> <<Method("get", <<ArgName>>), Method("put", <<ArgName, ArgId>>),
                        Method("delete", <<ArgName>>)>>
      [] c = "XFB" -> <<Method("get", <<>>)>>

\* tornado_json.utils.is_handler_subclass
is_handler_subclass(c) == c # "UT"

\* pyclbr.readmodule: the classes a module defines, in definition order
readmodule(module_name) ==
    CASE module_name = ApiFoo -> <<"UT", "FB">>
      [] module_name = ApiHelloworld -> <<"HW">>
      [] module_name = ApiPeopleViews -> <<"HFH">>
      [] module_name = WebViews -> <<"XFB">>
      [] OTHER -> <<>>

\* importlib.import_module raises ImportError for these
ImportFails(module_name) == module_name = ApiBroken

\* pkgutil.walk_packages(path, prefix): the submodule names, in walk order
\*   site_a: api.helloworld and api.util (which defines no class)
\*   site_b: api.broken (its import raises), api.people, api.people.views
\*   site_c: api.foo
Packages == {"site_a", "site_b", "site_c"}
walk_packages(pkg) ==
    CASE pkg = "site_a" -> <<ApiHelloworld, ApiUtil>>
      [] pkg = "site_b" -> <<ApiBroken, ApiPeople, ApiPeopleViews>>
      [] pkg = "site_c" -> <<ApiFoo>>

\* the handler classes the package defines (the ones decorators are applied to)
PackageHandlers(pkg) ==
    {c \in ClassIds : /\ is_handler_subclass(c)
                      /\ \E i \in 1..Len(walk_packages(pkg)) :
                            c \in SeqToSet(readmodule(walk_packages(pkg)[i]))}

\* class attributes of the request handler base classes
DefaultMeta == [tj_end_pattern |-> <<>>, tj_pattern |-> <<>>,
                tj_no_auto_route |-> FALSE, tj_route_base |-> FALSE]

(***************************************************************************)
(* Argument values of the decorators and of get_module_routes.             *)
(***************************************************************************)
NoneVal == [type |-> "None", str |-> <<>>, list |-> <<>>]
StrVal(s) == [type |-> "str", str |-> s, list |-> <<>>]
ListVal(l) == [type |-> "list", str |-> <<>>, list |-> l]
IntVal == [type |-> "int", str |-> <<>>, list |-> <<>>]

PatFoo == <<"f","o","o">>
PatBar == <<"b","a","r">>
PatternArgs == {NoneVal, StrVal(<<"/","c","/","?","$">>), ListVal(<<<<"/","a","$">>, <<"/","b">>>>), IntVal}
PatHelloworld == <<"h","e","l","l","o","w","o","r","l","d">>
EndPatternArgs == {NoneVal, StrVal(PatHelloworld), ListVal(<<PatFoo, PatBar>>), IntVal}

\* an entry of a route table: a (url, RequestHandler) tuple, or a bare str
Pair(url, c) == [tuple |-> TRUE, url |-> url, handler |-> c]
Bare(url) == [tuple |-> FALSE, url |-> url, handler |-> ""]

CustomRoutesArgs == {NoneVal, ListVal(<<Pair(<<"/","c","u","s","t","o","m","/","?">>, "XFB")>>)}
ExclusionsArgs == {NoneVal, ListVal(<<HelloWorldHandlerName, HandlerFooHandlerName>>)}

NoCall == [op |-> "none", module_name |-> <<>>, custom_routes |-> NoneVal,
           exclusions |-> NoneVal]
NoResult == [returned |-> FALSE, routes |-> <<>>]
Returned(r) == [returned |-> TRUE, routes |-> r]

(***************************************************************************)
(* route and baseroute.                                                    *)
(***************************************************************************)
\* tornado_json.utils.ensure_endswith
ensure_endswith(s, postfix) == IF endswith(s, postfix) THEN s ELSE s \o postfix

sanitize_pattern(p) == ensure_endswith(rstrip(p, "$"), OptSlash) \o <<"$">>

\* _transform_attr raises TypeError exactly when this holds
Unsupported(attr) == attr.type \notin {"str", "list", "tuple", "None"}

transform_attr(attr) ==
    IF attr.type = "str" THEN <<attr.str>>
    ELSE IF attr.type \in {"tuple", "list"} THEN attr.list
    ELSE <<>>


\* the handler's attributes after route(pattern, end_pattern, no_auto_route)(handler),
\* whether it returned or raised: the assignments are made one after the other
route_meta(m, pattern, end_pattern, no_auto_route) ==
    IF Unsupported(end_pattern) THEN m
    ELSE IF Unsupported(pattern)
    THEN [m EXCEPT !.tj_end_pattern = transform_attr(end_pattern)]
    ELSE [m EXCEPT !.tj_end_pattern = transform_attr(end_pattern),
                   !.tj_pattern = [i \in 1..Len(transform_attr(pattern)) |->
                                      sanitize_pattern(transform_attr(pattern)[i])],
                   !.tj_no_auto_route = no_auto_route]

baseroute_meta(m) == [m EXCEPT !.tj_route_base = TRUE, !.tj_no_auto_route = TRUE]

Route(h, pattern, end_pattern, no_auto_route) ==
    /\ handlers' = [handlers EXCEPT
                       ![h] = route_meta(handlers[h], pattern, end_pattern, no_auto_route)]
    /\ err' = IF Unsupported(end_pattern) \/ Unsupported(pattern) THEN "TypeError" ELSE "none"
    /\ call' = NoCall
    /\ routes' = <<>>
    /\ prev' = NoResult
    /\ UNCHANGED <<PY3, hashseed, package, gr_in, gen>>

Baseroute(h) ==
    /\ handlers' = [handlers EXCEPT ![h] = baseroute_meta(handlers[h])]
    /\ err' = "none"
    /\ call' = NoCall
    /\ routes' = <<>>
    /\ prev' = NoResult
    /\ UNCHANGED <<PY3, hashseed, package, gr_in, gen>>

(***************************************************************************)
(* get_module_routes and get_routes.                                       *)
(***************************************************************************)
has_method(c, method_name) ==
    \E i \in 1..Len(cls_vars(c)) :
        cls_vars(c)[i].attr = method_name /\ cls_vars(c)[i].is_method

\* the argspec of method_name, which has_method accepts
method_argspec(c, method_name) ==
    cls_vars(c)[CHOOSE i \in 1..Len(cls_vars(c)) : cls_vars(c)[i].attr = method_name].argspec

\* the HTTP_METHODS the comprehension goes through for a class, in its order
own_methods(c) == SelectSeq(HTTP_METHODS, LAMBDA m : has_method(c, m))

\* the attributes of class c, in the attribute table hs
Meta(hs, c) == IF c \in DOMAIN hs THEN hs[c] ELSE DefaultMeta


\* generate_auto_routes without the test of _tj_no_auto_route
generate_auto_routes_always_self(m, module_name, c, method_name) ==
    <<generate_route(module_name, cls_name(c),
                     method_argspec(c, method_name), AutoURL("self"))>>
    \o
    (IF m.tj_route_base = TRUE
     THEN <<generate_route(module_name, cls_name(c),
                           method_argspec(c, method_name), AutoURL("module"))>>
     ELSE <<>>)

\* generate_auto_routes with `elif` for the module route
generate_auto_routes_elif(m, module_name, c, method_name) ==
    IF m.tj_no_auto_route = FALSE
    THEN <<generate_route(module_name, cls_name(c),
                          method_argspec(c, method_name), AutoURL("self"))>>
    ELSE IF m.tj_route_base = TRUE
    THEN <<generate_route(module_name, cls_name(c),
                          method_argspec(c, method_name), AutoURL("module"))>>
    ELSE <<>>

generate_auto_routes(m, module_name, c, method_name) ==
    (IF m.tj_no_auto_route = FALSE
     THEN <<generate_route(module_name, cls_name(c),
                           method_argspec(c, method_name), AutoURL("self"))>>
     ELSE <<>>)
    \o
    (IF m.tj_route_base = TRUE
     THEN <<generate_route(module_name, cls_name(c),
                           method_argspec(c, method_name), AutoURL("module"))>>
     ELSE <<>>)

\* what `for url in handler._tj_pattern` goes through for the k-th method: on
\* Python 3 the map object is exhausted by the first loop over it
tj_pattern_iter(m, k) == IF PY3 /\ k > 1 THEN <<>> ELSE m.tj_pattern

\* the inner list of the comprehension, for one method of one class
method_routes(m, module_name, c, k) ==
    [i \in 1..Len(m.tj_end_pattern) |->
        Pair(generate_route(module_name, cls_name(c),
                            method_argspec(c, own_methods(c)[k]),
                            StrURL(m.tj_end_pattern[i])), c)]
    \o [i \in 1..Len(tj_pattern_iter(m, k)) |-> Pair(tj_pattern_iter(m, k)[i], c)]
    \o [i \in 1..Len(generate_auto_routes(m, module_name, c, own_methods(c)[k])) |->
        Bare(generate_auto_routes(m, module_name, c, own_methods(c)[k])[i])]

\* list(set(chain(*[... for method_name in HTTP_METHODS if has_method(...)])))
class_routes(m, module_name, c) ==
    list_set(chain([k \in 1..Len(own_methods(c)) |-> method_routes(m, module_name, c, k)]))

\* `if not custom_routes: custom_routes = []`, and the same for exclusions
or_empty(arg) == IF arg.type = "None" \/ arg.list = <<>> THEN <<>> ELSE arg.list

\* custom_routes_s = [c.__name__ for r, c in custom_routes]
custom_routes_s(custom_routes) ==
    [i \in 1..Len(custom_routes) |-> cls_name(custom_routes[i].handler)]


\* the filter without the custom_routes_s part
is_selected_exclusions_only(c, custom_routes, exclusions) ==
    /\ is_handler_subclass(c)
    /\ cls_name(c) \notin SeqToSet(exclusions)

\* the filter of the outer comprehension
is_selected(c, custom_routes, exclusions) ==
    /\ is_handler_subclass(c)
    /\ cls_name(c) \notin SeqToSet(custom_routes_s(custom_routes) \o exclusions)

\* rhs.items() for the classes the outer comprehension keeps
selected_classes(module_name, custom_routes, exclusions) ==
    SelectSeq(HashOrder(readmodule(module_name)),
              LAMBDA c : is_selected(c, custom_routes, exclusions))

auto_routes(hs, module_name, custom_routes, exclusions) ==
    chain([j \in 1..Len(selected_classes(module_name, custom_routes, exclusions)) |->
              class_routes(Meta(hs, selected_classes(module_name, custom_routes, exclusions)[j]),
                           module_name,
                           selected_classes(module_name, custom_routes, exclusions)[j])])

\* the value get_module_routes returns when the import succeeds
get_module_routes(hs, module_name, custom_routes, exclusions) ==
    auto_routes(hs, module_name, or_empty(custom_routes), or_empty(exclusions))
    \o or_empty(custom_routes)

\* the attribute table after the call: on Python 3 every map object the call
\* looped over is left exhausted
after_module_routes(hs, module_name, custom_routes, exclusions) ==
    [c \in DOMAIN hs |->
        IF /\ PY3
           /\ c \in SeqToSet(selected_classes(module_name, or_empty(custom_routes),
                                              or_empty(exclusions)))
           /\ own_methods(c) # <<>>
        THEN [hs[c] EXCEPT !.tj_pattern = <<>>]
        ELSE hs[c]]

\* gen_submodule_names(package), as a list
gen_submodule_names(pkg) == walk_packages(pkg)

\* the index of the first submodule whose import raises, 0 if none does
first_failure(names) ==
    IF \E i \in 1..Len(names) : ImportFails(names[i])
    THEN CHOOSE i \in 1..Len(names) :
            /\ ImportFails(names[i])
            /\ \A j \in 1..(i - 1) : ~ImportFails(names[j])
    ELSE 0

\* the attribute table after get_module_routes ran on the first n names
RECURSIVE after_modules(_, _, _)
after_modules(hs, names, n) ==
    IF n = 0 THEN hs
    ELSE after_module_routes(after_modules(hs, names, n - 1), names[n], NoneVal, NoneVal)

\* the value get_routes returns when no import fails
get_routes(hs, pkg) ==
    chain([i \in 1..Len(gen_submodule_names(pkg)) |->
              get_module_routes(after_modules(hs, gen_submodule_names(pkg), i - 1),
                                gen_submodule_names(pkg)[i], NoneVal, NoneVal)])

ThisCall(op, module_name, custom_routes, exclusions) ==
    [op |-> op, module_name |-> module_name, custom_routes |-> custom_routes,
     exclusions |-> exclusions]

\* the result of the call before, kept when this call repeats it
PrevOf(c) == IF call = c /\ err = "none" THEN Returned(routes) ELSE NoResult

GetModuleRoutes(module_name, custom_routes, exclusions) ==
    /\ call' = ThisCall("get_module_routes", module_name, custom_routes, exclusions)
    /\ prev' = PrevOf(call')
    /\ IF ImportFails(module_name)
       THEN /\ err' = "ImportError"
            /\ routes' = <<>>
            /\ UNCHANGED handlers
       ELSE /\ err' = "none"
            /\ routes' = get_module_routes(handlers, module_name, custom_routes, exclusions)
            /\ handlers' = after_module_routes(handlers, module_name, custom_routes,
                                               exclusions)
    /\ UNCHANGED <<PY3, hashseed, package, gr_in, gen>>

GetRoutes ==
    /\ call' = ThisCall("get_routes", <<>>, NoneVal, NoneVal)
    /\ prev' = PrevOf(call')
    /\ IF first_failure(gen_submodule_names(package)) # 0
       THEN /\ err' = "ImportError"
            /\ routes' = <<>>
            /\ handlers' = after_modules(handlers, gen_submodule_names(package),
                                         first_failure(gen_submodule_names(package)) - 1)
       ELSE /\ err' = "none"
            /\ routes' = get_routes(handlers, package)
            /\ handlers' = after_modules(handlers, gen_submodule_names(package),
                                         Len(gen_submodule_names(package)))
    /\ UNCHANGED <<PY3, hashseed, package, gr_in, gen>>

(***************************************************************************)
(* The route table machine: decorators run on the handler classes of a     *)
(* package, and the route table is generated from it.                      *)
(***************************************************************************)
NoInput == [module_name |-> <<>>, cls_name |-> <<>>, argspec |-> <<>>,
            url_name |-> AutoURL("self")]
NotGenerated == [done |-> FALSE, path |-> <<>>, name |-> <<>>, args |-> <<>>, url |-> <<>>]

Init ==
    /\ PY3 \in BOOLEAN
    /\ hashseed \in {0, 1}
    /\ package \in Packages
    /\ handlers = [c \in PackageHandlers(package) |-> DefaultMeta]
    /\ call = NoCall
    /\ routes = <<>>
    /\ prev = NoResult
    /\ err = "none"
    /\ gr_in = NoInput
    /\ gen = NotGenerated

Next ==
    \/ \E h \in DOMAIN handlers, pattern \in PatternArgs, end_pattern \in EndPatternArgs,
          no_auto_route \in BOOLEAN :
          Route(h, pattern, end_pattern, no_auto_route)
    \/ \E h \in DOMAIN handlers : Baseroute(h)
    \/ \E i \in 1..Len(gen_submodule_names(package)),
          custom_routes \in CustomRoutesArgs, exclusions \in ExclusionsArgs :
          GetModuleRoutes(gen_submodule_names(package)[i], custom_routes, exclusions)
    \/ GetRoutes

Spec == Init /\ [][Next]_vars

(***************************************************************************)
(* generate_route on its own: one call, on arguments drawn from bounded    *)
(* sets of module names, class names, method signatures and url names.     *)
(***************************************************************************)
\* the words class names are built of
NameTokens == {<<"H","e","l","l","o","W","o","r","l","d">>,
               <<"H","a","n","d","l","e","r">>,
               <<"H","A","N","D","L","E","R">>,
               <<"F","o","o","B","a","r">>}

RECURSIVE NamesOf(_)
NamesOf(n) ==
    IF n = 0 THEN {<<>>}
    ELSE {t \o r : t \in NameTokens, r \in NamesOf(n - 1)}

ClassNames == UNION {NamesOf(n) : n \in 1..MaxTokens}

ArgNames == {ArgId, ArgName, ArgKey}

\* the lists of n distinct parameter names
RECURSIVE ArgLists(_)
ArgLists(n) ==
    IF n = 0 THEN {<<>>}
    ELSE UNION {{Append(l, a) : a \in ArgNames \ SeqToSet(l)} : l \in ArgLists(n - 1)}

\* inspect.getargspec(method).args of a method: the receiver, then the parameters
ArgSpecs == {<<SelfLit>> \o l : l \in UNION {ArgLists(n) : n \in 0..MaxArgs}}

ModuleNames == {<<"a","p","i">>, ApiHelloworld, ApiPeopleViews}
UrlNames == {AutoURL("self"), AutoURL("module"), StrURL(PatFoo)}

InitNaming ==
    /\ PY3 = TRUE
    /\ hashseed = 0
    /\ package = "site_a"
    /\ handlers = [c \in PackageHandlers(package) |-> DefaultMeta]
    /\ call = NoCall
    /\ routes = <<>>
    /\ prev = NoResult
    /\ err = "none"
    /\ gr_in \in [module_name : ModuleNames, cls_name : ClassNames,
                  argspec : ArgSpecs, url_name : UrlNames]
    /\ gen = NotGenerated

GenerateRoute ==
    /\ ~gen.done
    /\ gen' = [done |-> TRUE,
               path |-> get_module_path(gr_in.module_name),
               name |-> get_handler_name(gr_in.cls_name, gr_in.url_name),
               args |-> get_arg_route(gr_in.argspec),
               url |-> generate_route(gr_in.module_name, gr_in.cls_name,
                                      gr_in.argspec, gr_in.url_name)]
    /\ UNCHANGED <<PY3, hashseed, package, handlers, call, routes, prev, err, gr_in>>

NextNaming == GenerateRoute

SpecNaming == InitNaming /\ [][NextNaming]_vars

(***************************************************************************)
(* Properties.                                                             *)
(***************************************************************************)
\* the last call was get_module_routes and it returned
ModuleCallReturned == call.op = "get_module_routes" /\ err = "none"

\* the synthesized part of the returned table, and the caller's part
CustomPart == or_empty(call.custom_routes)
AutoPart == SubSeq(routes, 1, Len(routes) - Len(CustomPart))

\* the handler classes the module of the last call defines
ModuleHandlers == {c \in SeqToSet(readmodule(call.module_name)) : is_handler_subclass(c)}

\* the class is kept by the filter of the last call
Kept(c) ==
    /\ cls_name(c) \notin SeqToSet(or_empty(call.exclusions))
    /\ \A i \in 1..Len(CustomPart) : cls_name(CustomPart[i].handler) # cls_name(c)

\* a lower-cased name without its trailing "handler", when it has one
StripTrailingHandler(s) ==
    IF Len(s) >= 7 /\ SubSeq(s, Len(s) - 6, Len(s)) = <<"h","a","n","d","l","e","r">>
    THEN SubSeq(s, 1, Len(s) - 7)
    ELSE s

\* C1: the self-naming rule returns "/" followed by the lower-cased class name
\* with its trailing "handler" (and nothing else) removed, if it ends in one.
C1_SelfNameStripsTrailingHandler ==
    (gen.done /\ gr_in.url_name = AutoURL("self"))
        => gen.name = <<"/">> \o StripTrailingHandler(lower(gr_in.cls_name))

\* a step in which get_module_routes("api.helloworld") runs and returns while
\* HelloWorldHandler carries the default metadata
C2_Step ==
    /\ package = "site_a"
    /\ handlers["HW"] = DefaultMeta
    /\ call' = ThisCall("get_module_routes", ApiHelloworld, NoneVal, NoneVal)
    /\ err' = "none"

FooBarAnnotated == [tj_end_pattern |-> <<<<"f","o","o">>, <<"b","a","r">>>>, tj_pattern |-> <<>>,
                    tj_no_auto_route |-> TRUE, tj_route_base |-> FALSE]

\* a step in which get_module_routes("api.helloworld") runs and returns the
\* routes of HelloWorldHandler, annotated with route(end_pattern=["foo", "bar"])
C5_Step ==
    /\ package = "site_a"
    /\ handlers["HW"] = FooBarAnnotated
    /\ call'.op = "get_module_routes"
    /\ call'.module_name = ApiHelloworld
    /\ err' = "none"
    /\ Kept("HW")'

CaptureGroup(a) == <<"(","?","P","<">> \o a \o <<">","[","a","-","z","A","-","Z","0","-","9","_","]","+",")">>

\* the groups of a non-empty parameter list, in its order, joined by "/"
RECURSIVE CaptureGroups(_)
CaptureGroups(params) ==
    IF Len(params) = 1 THEN CaptureGroup(params[1])
    ELSE CaptureGroup(params[1]) \o <<"/">> \o CaptureGroups(Tail(params))

\* the number of places where a named group opens in s
GroupCount(s) == Cardinality({i \in 1..(Len(s) - 3) : SubSeq(s, i, i + 3) = <<"(","?","P","<">>})

PatternsOf(c) ==
    {generate_route(call.module_name, cls_name(c), method_argspec(c, own_methods(c)[k]), u) :
        k \in 1..Len(own_methods(c)),
        u \in {AutoURL("self"), AutoURL("module")}
              \cup {StrURL(n) : n \in SeqToSet(Meta(handlers, c).tj_end_pattern)}}
    \cup SeqToSet(Meta(handlers, c).tj_pattern)

C8_NoDuplicatePatterns ==
    (ModuleCallReturned /\ Cardinality(ModuleHandlers) <= 1) =>
        \A i, j \in 1..Len(AutoPart) :
            i # j => AutoPart[i].url # AutoPart[j].url

\* the patterns in the synthesized part of the returned table
AutoUrls == {AutoPart[i].url : i \in 1..Len(AutoPart)}

\* the patterns the end patterns and custom patterns of class c account for
NamedPatternsOf(c) ==
    {generate_route(call.module_name, cls_name(c), method_argspec(c, own_methods(c)[k]),
                    StrURL(n)) :
        k \in 1..Len(own_methods(c)), n \in SeqToSet(Meta(handlers, c).tj_end_pattern)}
    \cup {AutoPart[i].url : i \in {j \in 1..Len(AutoPart) : AutoPart[j].tuple}}

SelfUrl(c, k) ==
    generate_route(call.module_name, cls_name(c), method_argspec(c, own_methods(c)[k]),
                   AutoURL("self"))
ModuleUrl(c, k) ==
    generate_route(call.module_name, cls_name(c), method_argspec(c, own_methods(c)[k]),
                   AutoURL("module"))

\* C9: for each own HTTP method of a handler the call goes through, the
\* self-named route is in the table iff no-auto-route is false, and the
\* module-path-only route is in the table iff route-base is true (a pattern that
\* an end pattern or a custom pattern of the handler also yields aside).
C9_FlagsIndependent ==
    ModuleCallReturned =>
        \A c \in ModuleHandlers : Kept(c) =>
            \A k \in 1..Len(own_methods(c)) :
                /\ handlers[c].tj_no_auto_route = FALSE => SelfUrl(c, k) \in AutoUrls
                /\ handlers[c].tj_route_base = TRUE => ModuleUrl(c, k) \in AutoUrls
                /\ (handlers[c].tj_no_auto_route = TRUE
                    /\ SelfUrl(c, k) \notin NamedPatternsOf(c))
                       => SelfUrl(c, k) \notin AutoUrls
                /\ (handlers[c].tj_route_base = FALSE
                    /\ ModuleUrl(c, k) \notin NamedPatternsOf(c))
                       => ModuleUrl(c, k) \notin AutoUrls

C9_Witness ==
    /\ ModuleCallReturned
    /\ package = "site_b"
    /\ Kept("HFH")
    /\ call.module_name = ApiPeopleViews
    /\ handlers["HFH"].tj_route_base = TRUE
    /\ handlers["HFH"].tj_no_auto_route = FALSE
    /\ SelfUrl("HFH", 1) \in AutoUrls
    /\ ModuleUrl("HFH", 1) \in AutoUrls

\* C3: a call of get_module_routes or get_routes that repeats the call before it
\* returns the same table, in the same order.
C3_Idempotent == prev.returned => routes = prev.routes

\* C4: get_routes never raises the import error of a submodule.
C4_ImportFailureSkipped == call.op = "get_routes" => err = "none"

\* C10: an application of route(...) that raises TypeError leaves the metadata
\* of every handler as it was.
C10_FailedRouteLeavesMetadata == [][err' = "TypeError" => handlers' = handlers]_vars

====
